---- MODULE Spec2Model ----
(***************************************************************************)
(* A model of the two scripts of the repository:                           *)
(*   analyze-user-cases.py      reads a spreadsheet of survey responses,   *)
(*                              extracts geospatial use cases, classifies  *)
(*                              them and writes user-test-cases.json;      *)
(*   export_to_drive_script.py  builds a cloud-masked median composite and *)
(*                              submits one export task.                   *)
(* Texts are strings; the substring tests, lower-casing and slicing of the *)
(* scripts are computed character by character.                            *)
(***************************************************************************)
EXTENDS Integers, Sequences, FiniteSets, TLC

VARIABLES
    df,               \* the spreadsheet: [columns, rows]
    pc,               \* position of analyze-user-cases.py
    idx, cpos,        \* extraction loop: row label (0-based) and column position
    key_columns,
    use_cases,
    categorized, uncategorized,
    n,                \* number of use cases consumed by the loop at pc
    supported_count, partial_support, needs_extension,
    total_analyzed,
    capability_count,
    test_cases,
    json_file,        \* content of user-test-cases.json; NotWritten before the dump
    stdout,           \* lines printed that the model keeps
    fault,            \* name of the uncaught exception that ended the run, or ""
    catalogue,        \* the images of the remote dataset, one pixel each
    epc,              \* position of export_to_drive_script.py
    collection, image, export_image, task,
    api_calls,        \* the remote-API steps made so far, in order
    console,          \* lines printed by export_to_drive_script.py
    qa, mask          \* a QA60 value and the mask computed for it

avars == << df, pc, idx, cpos, key_columns, use_cases, categorized, uncategorized,
            n, supported_count, partial_support, needs_extension, total_analyzed,
            capability_count, test_cases, json_file, stdout, fault >>

evars == << catalogue, epc, collection, image, export_image, task, api_calls, console >>

mvars == << qa, mask >>

vars == << avars, evars, mvars >>

-----------------------------------------------------------------------------
(* Bounds of the model *)

MaxRows == 2
MaxCols == 2
MaxTallRows == 11
MaxPattern == 2
MaxImages == 2
QABits == 16

-----------------------------------------------------------------------------
(* Python's str operations *)

Min(a, b) == IF a < b THEN a ELSE b

\* The cased characters of the texts and their lowercase
LowerMap ==
    ("A" :> "a") @@ ("B" :> "b") @@ ("C" :> "c") @@ ("D" :> "d") @@ ("E" :> "e") @@ ("F" :> "f") @@
    ("G" :> "g") @@ ("H" :> "h") @@ ("I" :> "i") @@ ("J" :> "j") @@ ("K" :> "k") @@ ("L" :> "l") @@
    ("M" :> "m") @@ ("N" :> "n") @@ ("O" :> "o") @@ ("P" :> "p") @@ ("Q" :> "q") @@ ("R" :> "r") @@
    ("S" :> "s") @@ ("T" :> "t") @@ ("U" :> "u") @@ ("V" :> "v") @@ ("W" :> "w") @@ ("X" :> "x") @@
    ("Y" :> "y") @@ ("Z" :> "z")

\* str.lower() of a single character
LowerChar(c) == IF c \in DOMAIN LowerMap THEN LowerMap[c] ELSE c

RECURSIVE Lower(_)
\* str.lower(): every character lowered, the halves of the text in turn
Lower(s) ==
    IF Len(s) = 0 THEN ""
    ELSE IF Len(s) = 1 THEN LowerChar(s)
    ELSE LET half == Len(s) \div 2
         IN  Lower(SubSeq(s, 1, half)) \o Lower(SubSeq(s, half + 1, Len(s)))

\* keyword in text: the keyword is a substring of the text
Contains(text, keyword) ==
    \E i \in 1..(Len(text) - Len(keyword) + 1) :
        SubSeq(text, i, i + Len(keyword) - 1) = keyword

\* Mutant of Prefix: the slice keeps one character too many
PrefixOffByOne(s, limit) == SubSeq(s, 1, Min(Len(s), limit + 1))

\* s[:limit]
Prefix(s, limit) == SubSeq(s, 1, Min(Len(s), limit))

-----------------------------------------------------------------------------
(* Constants of analyze-user-cases.py *)

MinTextLen == 20
DetailLimit == 10
TestCaseLimit == 5
UseCaseChars == 100

key_markers == << "use case", "application", "build", "project" >>

keywords ==
    << "satellite", "imagery", "ndvi", "vegetation", "crop", "agriculture",
       "forest", "water", "land", "climate", "weather", "monitor", "analysis",
       "detection", "classification", "map", "earth", "observation", "remote sensing",
       "wildfire", "flood", "drought", "yield", "urban", "deforestation" >>

categories ==
    << [name |-> "Agriculture",
        keywords |-> << "crop", "agriculture", "farm", "yield", "soil", "irrigation", "harvest" >>],
       [name |-> "Forest/Vegetation",
        keywords |-> << "forest", "vegetation", "ndvi", "deforestation", "tree", "biomass" >>],
       [name |-> "Water Resources",
        keywords |-> << "water", "flood", "drought", "lake", "river", "moisture", "rainfall" >>],
       [name |-> "Climate/Weather",
        keywords |-> << "climate", "weather", "temperature", "precipitation", "storm" >>],
       [name |-> "Disaster Management",
        keywords |-> << "wildfire", "flood", "disaster", "risk", "emergency", "damage" >>],
       [name |-> "Urban Planning",
        keywords |-> << "urban", "city", "building", "infrastructure", "land use" >>],
       [name |-> "Environmental Monitoring",
        keywords |-> << "pollution", "air quality", "emission", "environmental" >>] >>

mcp_capabilities ==
    << [name |-> "NDVI Calculation",
        keywords |-> << "ndvi", "vegetation index", "vegetation health" >>],
       [name |-> "Water Index (NDWI)",
        keywords |-> << "water", "ndwi", "water bodies", "moisture" >>],
       [name |-> "Cloud-free Composites",
        keywords |-> << "composite", "cloud-free", "median", "mosaic" >>],
       [name |-> "Wildfire Risk",
        keywords |-> << "wildfire", "fire risk", "fire detection" >>],
       [name |-> "Time Series Analysis",
        keywords |-> << "time series", "temporal", "change detection", "monitoring" >>],
       [name |-> "Export/Visualization",
        keywords |-> << "export", "map", "visualization", "thumbnail" >>],
       [name |-> "Custom Analysis",
        keywords |-> << "custom", "algorithm", "classification", "machine learning" >>] >>

CategoryNames == { categories[c].name : c \in 1..Len(categories) }

\* The three record templates of the test-case generator
NdviCase(text) ==
    [name |-> "Vegetation Monitoring", operation |-> "earth_engine_process",
     args |-> [operation |-> "index", indexType |-> "NDVI", region |-> "Los Angeles",
               startDate |-> "2024-01-01", endDate |-> "2024-01-31",
               includeVisualization |-> TRUE],
     use_case |-> Prefix(text, UseCaseChars)]

NdwiCase(text) ==
    [name |-> "Water Resources Monitoring", operation |-> "earth_engine_process",
     args |-> [operation |-> "index", indexType |-> "NDWI", region |-> "San Francisco",
               startDate |-> "2024-01-01", endDate |-> "2024-01-31",
               includeVisualization |-> TRUE],
     use_case |-> Prefix(text, UseCaseChars)]

WildfireCase(text) ==
    [name |-> "Wildfire Risk Assessment", operation |-> "wildfire_risk_assessment",
     args |-> [region |-> "Los Angeles", startDate |-> "2024-06-01",
               endDate |-> "2024-08-31"],
     use_case |-> Prefix(text, UseCaseChars)]

-----------------------------------------------------------------------------
(* The input spreadsheets *)

StrHeader(s) == [kind |-> "str", text |-> s]
IntHeader(s) == [kind |-> "int", text |-> s]

\* Column labels as read_excel returns them: unique, a number where the header
\* cell holds a number.
HeaderPool ==
    << StrHeader("Timestamp"), StrHeader("What would you build?"),
       StrHeader("Email Address"),
       StrHeader("Describe your use case"), StrHeader("Organization"),
       StrHeader("Project application area"), StrHeader("Country") >>

NaN == [kind |-> "nan", text |-> ""]
Number == [kind |-> "number", text |-> "42"]
Str(s) == [kind |-> "str", text |-> s]

TextShort == "satellite map images"
TextNoGeo == "I enjoy building web apps daily"
TextMulti == "Crop water stress monitoring with NDVI"
TextUncat == "Satellite imagery analysis tools"
TextFlood == "Flood risk mapping for cities"
TextLong  == "Forest cover change detection across large protected regions using annual optical image stacks, plus wildfire alerts"

CellValues ==
    { NaN, Number, Str(TextShort), Str(TextNoGeo), Str(TextMulti), Str(TextUncat),
      Str(TextFlood), Str(TextLong) }

UseCaseValues == { NaN, Str(TextMulti), Str(TextUncat), Str(TextFlood), Str(TextLong) }

\* The texts of the input sheets, and the slices the test cases carry
Texts ==
    { v.text : v \in CellValues } \cup { Prefix(v.text, UseCaseChars) : v \in CellValues }
    \cup { HeaderPool[h].text : h \in 1..Len(HeaderPool) }

\* text.lower() of every text of the input sheets, computed once
lowered == [t \in Texts |-> Lower(t)]

SeqRange(q) == { q[k] : k \in 1..Len(q) }

AllKeywords ==
    SeqRange(key_markers) \cup SeqRange(keywords)
    \cup UNION { SeqRange(categories[c].keywords) : c \in 1..Len(categories) }
    \cup UNION { SeqRange(mcp_capabilities[c].keywords) : c \in 1..Len(mcp_capabilities) }
    \cup { "ndvi", "vegetation", "water", "wildfire", "fire" }

\* The keywords that are substrings of each text, raw or lowered, computed once
found ==
    [t \in Texts \cup { lowered[u] : u \in Texts } |->
        { kw \in AllKeywords : Contains(t, kw) }]

\* keyword in text, for a text and keyword of the script
In(keyword, text) == keyword \in found[text]

\* any(keyword in text for keyword in kws)
AnyKeyword(text, kws) == \E k \in 1..Len(kws) : In(kws[k], text)

\* The cells of a sheet of the given shape, a pattern repeated along every row
\* and down every column
Cells(nrows, ncols, p) ==
    [r \in 1..nrows |->
        [c \in 1..ncols |-> p[(((r - 1) + (c - 1)) % Len(p)) + 1]]]

Patterns(values) == UNION { [1..l -> values] : l \in 1..MaxPattern }

\* The column labels of a sheet of ncols columns
Layouts(ncols) ==
    { SubSeq(HeaderPool, o, o + ncols - 1) : o \in {1, 2} }
    \cup { SubSeq(HeaderPool, 1, ncols - 1) \o << IntHeader("2024") >> : o \in {1} \cap (1..ncols) }

\* Sheets of up to MaxRows rows and MaxCols columns, of any cell values
GridSheets ==
    { [columns |-> h, rows |-> Cells(nrows, Len(h), p)] :
        h \in UNION { Layouts(ncols) : ncols \in 0..MaxCols },
        nrows \in 0..MaxRows, p \in Patterns(CellValues) }

\* One-column sheets of more rows
TallSheets ==
    { [columns |-> SubSeq(HeaderPool, 2, 2), rows |-> Cells(nrows, 1, p)] :
        nrows \in (MaxRows + 1)..MaxTallRows, p \in Patterns(UseCaseValues) }

Sheets ==
    { sheet \in GridSheets \cup TallSheets :
        Len(sheet.columns) = 0 => Len(sheet.rows) = 0 }

NRows == Len(df.rows)
NCols == Len(df.columns)

-----------------------------------------------------------------------------
(* analyze-user-cases.py *)

NotWritten == [written |-> FALSE, content |-> << >>]
NoImage == [made |-> FALSE, inputs |-> << >>, ops |-> << >>]
NoTask == [made |-> FALSE, state |-> "NONE", id |-> "", image |-> NoImage]

\* The other script is not run
ExportIdle ==
    /\ catalogue = << >>
    /\ epc = "off"
    /\ collection = << >>
    /\ image = NoImage
    /\ export_image = NoImage
    /\ task = NoTask
    /\ api_calls = << >>
    /\ console = << >>

NotComputed == -1

MaskIdle == qa = 0 /\ mask = NotComputed

AnalyzeIdle ==
    /\ df = [columns |-> << >>, rows |-> << >>]
    /\ pc = "off"
    /\ idx = 0
    /\ cpos = 1
    /\ key_columns = << >>
    /\ use_cases = << >>
    /\ categorized = [c \in CategoryNames |-> << >>]
    /\ uncategorized = << >>
    /\ n = 0
    /\ supported_count = 0
    /\ partial_support = 0
    /\ needs_extension = 0
    /\ total_analyzed = 0
    /\ capability_count = << >>
    /\ test_cases = << >>
    /\ json_file = NotWritten
    /\ stdout = << >>
    /\ fault = ""

InitAnalyze ==
    /\ df \in Sheets
    /\ pc = "columns"
    /\ idx = 0
    /\ cpos = 1
    /\ key_columns = << >>
    /\ use_cases = << >>
    /\ categorized = [c \in CategoryNames |-> << >>]
    /\ uncategorized = << >>
    /\ n = 0
    /\ supported_count = 0
    /\ partial_support = 0
    /\ needs_extension = 0
    /\ total_analyzed = 0
    /\ capability_count = << >>
    /\ test_cases = << >>
    /\ json_file = NotWritten
    /\ stdout = << >>
    /\ fault = ""
    /\ ExportIdle
    /\ MaskIdle

\* 'use case' in col.lower() or 'application' in col.lower() or ...
IsKeyColumn(col) == AnyKeyword(lowered[col.text], key_markers)

\* Position of the first column label that has no lower() method, 0 if none
FirstNonStr(columns) ==
    IF \E j \in 1..Len(columns) : columns[j].kind # "str"
    THEN CHOOSE j \in 1..Len(columns) :
            /\ columns[j].kind # "str"
            /\ \A h \in 1..(j - 1) : columns[h].kind = "str"
    ELSE 0

\* Lines 12-25: the key-column scan; col.lower() raises on a label that is not a str
FindKeyColumns ==
    /\ pc = "columns"
    /\ LET bad == FirstNonStr(df.columns)
       IN  IF bad = 0
           THEN /\ key_columns' = SelectSeq(df.columns, IsKeyColumn)
                /\ pc' = "extract"
                /\ fault' = fault
           ELSE /\ key_columns' = SelectSeq(SubSeq(df.columns, 1, bad - 1), IsKeyColumn)
                /\ pc' = "fault"
                /\ fault' = "AttributeError"
    /\ idx' = 0
    /\ cpos' = 1
    /\ UNCHANGED << df, use_cases, categorized, uncategorized, n, supported_count,
                    partial_support, needs_extension, total_analyzed,
                    capability_count, test_cases, json_file, stdout >>
    /\ UNCHANGED << evars, mvars >>

\* Mutant of IsUseCase: len(row[col]) >= 20 in place of > 20
IsUseCaseAtLeast(cell) ==
    /\ cell.kind # "nan"
    /\ cell.kind = "str"
    /\ Len(cell.text) >= MinTextLen
    /\ AnyKeyword(lowered[cell.text], keywords)

\* Line 31 and line 39: the test a cell must pass to become a use case
IsUseCase(cell) ==
    /\ cell.kind # "nan"
    /\ cell.kind = "str"
    /\ Len(cell.text) > MinTextLen
    /\ AnyKeyword(lowered[cell.text], keywords)

\* Lines 29-44: one cell of the extraction loop
ExtractCell ==
    /\ pc = "extract"
    /\ idx < NRows
    /\ LET col  == df.columns[cpos]
           cell == df.rows[idx + 1][cpos]
       IN  use_cases' =
               IF IsUseCase(cell)
               THEN Append(use_cases,
                           [user |-> idx + 1, column |-> col, use_case |-> cell.text])
               ELSE use_cases
    /\ IF cpos < NCols
       THEN /\ cpos' = cpos + 1
            /\ idx' = idx
       ELSE /\ cpos' = 1
            /\ idx' = idx + 1
    /\ UNCHANGED << df, pc, key_columns, categorized, uncategorized, n,
                    supported_count, partial_support, needs_extension,
                    total_analyzed, capability_count, test_cases, json_file,
                    stdout, fault >>
    /\ UNCHANGED << evars, mvars >>

\* Lines 46-63: the extraction loop is exhausted
ExtractDone ==
    /\ pc = "extract"
    /\ idx = NRows
    /\ pc' = "categorize"
    /\ n' = 0
    /\ UNCHANGED << df, idx, cpos, key_columns, use_cases, categorized,
                    uncategorized, supported_count, partial_support,
                    needs_extension, total_analyzed, capability_count,
                    test_cases, json_file, stdout, fault >>
    /\ UNCHANGED << evars, mvars >>

RECURSIVE MatchFrom(_, _)
\* Lines 69-73: the scan of categories.items() up to its break; 0 when none matches
MatchFrom(text, c) ==
    IF c > Len(categories) THEN 0
    ELSE IF AnyKeyword(text, categories[c].keywords) THEN c
    ELSE MatchFrom(text, c + 1)

\* Mutant of FirstCategory: the scan without its break, the last match wins
LastCategory(text) ==
    IF \E c \in 1..Len(categories) : AnyKeyword(text, categories[c].keywords)
    THEN CHOOSE c \in 1..Len(categories) :
            /\ AnyKeyword(text, categories[c].keywords)
            /\ \A d \in (c + 1)..Len(categories) : ~AnyKeyword(text, categories[d].keywords)
    ELSE 0

\* Mutant of FirstCategory: a text no category matches falls into the category the
\* scan ended on
FirstOrFinalCategory(text) ==
    IF MatchFrom(text, 1) = 0 THEN Len(categories) ELSE MatchFrom(text, 1)

FirstCategory(text) == MatchFrom(text, 1)

\* Lines 65-76: one use case of the categorisation loop
Categorize ==
    /\ pc = "categorize"
    /\ n < Len(use_cases)
    /\ LET use_case == use_cases[n + 1]
           text     == lowered[use_case.use_case]
           c        == FirstCategory(text)
       IN  IF c # 0
           THEN /\ categorized' =
                      [categorized EXCEPT ![categories[c].name] = Append(@, use_case)]
                /\ uncategorized' = uncategorized
           ELSE /\ categorized' = categorized
                /\ uncategorized' = Append(uncategorized, use_case)
    /\ n' = n + 1
    /\ UNCHANGED << df, pc, idx, cpos, key_columns, use_cases, supported_count,
                    partial_support, needs_extension, total_analyzed,
                    capability_count, test_cases, json_file, stdout, fault >>
    /\ UNCHANGED << evars, mvars >>

\* Lines 78-112: the categorisation loop is exhausted; the buckets are printed
CategorizeDone ==
    /\ pc = "categorize"
    /\ n = Len(use_cases)
    /\ pc' = "support"
    /\ n' = 0
    /\ UNCHANGED << df, idx, cpos, key_columns, use_cases, categorized,
                    uncategorized, supported_count, partial_support,
                    needs_extension, total_analyzed, capability_count,
                    test_cases, json_file, stdout, fault >>
    /\ UNCHANGED << evars, mvars >>

\* Lines 116-120: the capabilities with a keyword in the text, in declaration order
SupportedFeatures(text) ==
    LET hit(cap) == AnyKeyword(text, cap.keywords)
        hits     == SelectSeq(mcp_capabilities, hit)
    IN  [k \in 1..Len(hits) |-> hits[k].name]

\* Mutant of SupportLevel: > 2 in place of >= 2
SupportLevelStrict(supported_features) ==
    IF Len(supported_features) > 2 THEN "FULLY SUPPORTED"
    ELSE IF Len(supported_features) = 1 THEN "PARTIALLY SUPPORTED"
    ELSE "NEEDS EXTENSION"

\* Lines 122-130: the branch taken for a list of supported features
SupportLevel(supported_features) ==
    IF Len(supported_features) >= 2 THEN "FULLY SUPPORTED"
    ELSE IF Len(supported_features) = 1 THEN "PARTIALLY SUPPORTED"
    ELSE "NEEDS EXTENSION"

\* Lines 114-135: one use case of the support-level loop over use_cases[:10]
Support ==
    /\ pc = "support"
    /\ n < Min(Len(use_cases), DetailLimit)
    /\ LET use_case           == use_cases[n + 1]
           text               == lowered[use_case.use_case]
           supported_features == SupportedFeatures(text)
           support_level      == SupportLevel(supported_features)
       IN  IF support_level = "FULLY SUPPORTED"
           THEN /\ supported_count' = supported_count + 1
                /\ UNCHANGED << partial_support, needs_extension >>
           ELSE IF support_level = "PARTIALLY SUPPORTED"
           THEN /\ partial_support' = partial_support + 1
                /\ UNCHANGED << supported_count, needs_extension >>
           ELSE /\ needs_extension' = needs_extension + 1
                /\ UNCHANGED << supported_count, partial_support >>
    /\ n' = n + 1
    /\ UNCHANGED << df, pc, idx, cpos, key_columns, use_cases, categorized,
                    uncategorized, total_analyzed, capability_count, test_cases,
                    json_file, stdout, fault >>
    /\ UNCHANGED << evars, mvars >>

\* Lines 137-140: the support-level loop is exhausted
SupportDone ==
    /\ pc = "support"
    /\ n = Min(Len(use_cases), DetailLimit)
    /\ pc' = "summary"
    /\ UNCHANGED << df, idx, cpos, key_columns, use_cases, categorized,
                    uncategorized, n, supported_count, partial_support,
                    needs_extension, total_analyzed, capability_count,
                    test_cases, json_file, stdout, fault >>
    /\ UNCHANGED << evars, mvars >>

\* Lines 142-146: the percentages; count/total_analyzed raises when total_analyzed is 0
Summary ==
    /\ pc = "summary"
    /\ total_analyzed' = Min(Len(use_cases), DetailLimit)
    /\ IF total_analyzed' = 0
       THEN /\ pc' = "fault"
            /\ fault' = "ZeroDivisionError"
       ELSE /\ pc' = "capabilities"
            /\ fault' = fault
    /\ UNCHANGED << df, idx, cpos, key_columns, use_cases, categorized,
                    uncategorized, n, supported_count, partial_support,
                    needs_extension, capability_count, test_cases, json_file,
                    stdout >>
    /\ UNCHANGED << evars, mvars >>

\* Number of use cases whose text has a keyword of the capability
CapabilityUses(cap) ==
    Cardinality({ k \in 1..Len(use_cases) :
                    AnyKeyword(lowered[use_cases[k].use_case], cap.keywords) })

\* Lines 148-165: capability_count over all use cases; a capability no use case
\* needs gets no key
CountCapabilities ==
    /\ pc = "capabilities"
    /\ capability_count' =
           LET needed == { c \in 1..Len(mcp_capabilities) :
                             CapabilityUses(mcp_capabilities[c]) > 0 }
           IN  [ name \in { mcp_capabilities[c].name : c \in needed } |->
                   LET c == CHOOSE c \in needed : mcp_capabilities[c].name = name
                   IN  CapabilityUses(mcp_capabilities[c]) ]
    /\ pc' = "generate"
    /\ n' = 0
    /\ UNCHANGED << df, idx, cpos, key_columns, use_cases, categorized,
                    uncategorized, supported_count, partial_support,
                    needs_extension, total_analyzed, test_cases, json_file,
                    stdout, fault >>
    /\ UNCHANGED << evars, mvars >>

\* Mutant of CasesFor: the wildfire record is added on the water test
CasesForWaterFire(use_case) ==
    LET text == lowered[use_case.use_case]
    IN  (IF In("ndvi", text) \/ In("vegetation", text)
         THEN << NdviCase(use_case.use_case) >> ELSE << >>)
        \o
        (IF In("water", text)
         THEN << NdwiCase(use_case.use_case) >> ELSE << >>)
        \o
        (IF In("water", text)
         THEN << WildfireCase(use_case.use_case) >> ELSE << >>)

\* Lines 169-211: the records one use case adds to test_cases
CasesFor(use_case) ==
    LET text == lowered[use_case.use_case]
    IN  (IF In("ndvi", text) \/ In("vegetation", text)
         THEN << NdviCase(use_case.use_case) >> ELSE << >>)
        \o
        (IF In("water", text)
         THEN << NdwiCase(use_case.use_case) >> ELSE << >>)
        \o
        (IF In("wildfire", text) \/ In("fire", text)
         THEN << WildfireCase(use_case.use_case) >> ELSE << >>)

\* Lines 168-211: one use case of the generation loop over use_cases[:5]
GenerateTestCases ==
    /\ pc = "generate"
    /\ n < Min(Len(use_cases), TestCaseLimit)
    /\ test_cases' = test_cases \o CasesFor(use_cases[n + 1])
    /\ n' = n + 1
    /\ UNCHANGED << df, pc, idx, cpos, key_columns, use_cases, categorized,
                    uncategorized, supported_count, partial_support,
                    needs_extension, total_analyzed, capability_count, json_file,
                    stdout, fault >>
    /\ UNCHANGED << evars, mvars >>

\* The generation loop is exhausted
GenerateDone ==
    /\ pc = "generate"
    /\ n = Min(Len(use_cases), TestCaseLimit)
    /\ pc' = "save"
    /\ UNCHANGED << df, idx, cpos, key_columns, use_cases, categorized,
                    uncategorized, n, supported_count, partial_support,
                    needs_extension, total_analyzed, capability_count,
                    test_cases, json_file, stdout, fault >>
    /\ UNCHANGED << evars, mvars >>

\* Lines 213-215: json.dump(test_cases, f)
SaveTestCases ==
    /\ pc = "save"
    /\ json_file' = [written |-> TRUE, content |-> test_cases]
    /\ pc' = "finish"
    /\ UNCHANGED << df, idx, cpos, key_columns, use_cases, categorized,
                    uncategorized, n, supported_count, partial_support,
                    needs_extension, total_analyzed, capability_count,
                    test_cases, stdout, fault >>
    /\ UNCHANGED << evars, mvars >>

\* Lines 217-230: the closing prints
Finish ==
    /\ pc = "finish"
    /\ stdout' = Append(stdout, "ANALYSIS COMPLETE")
    /\ pc' = "done"
    /\ UNCHANGED << df, idx, cpos, key_columns, use_cases, categorized,
                    uncategorized, n, supported_count, partial_support,
                    needs_extension, total_analyzed, capability_count,
                    test_cases, json_file, fault >>
    /\ UNCHANGED << evars, mvars >>

NextAnalyze ==
    \/ FindKeyColumns
    \/ ExtractCell
    \/ ExtractDone
    \/ Categorize
    \/ CategorizeDone
    \/ Support
    \/ SupportDone
    \/ Summary
    \/ CountCapabilities
    \/ GenerateTestCases
    \/ GenerateDone
    \/ SaveTestCases
    \/ Finish

Spec == InitAnalyze /\ [][NextAnalyze]_vars

\* The interpreter runs the script's next statement whenever there is one
FairSpec == Spec /\ WF_vars(NextAnalyze)

-----------------------------------------------------------------------------
(* export_to_drive_script.py *)

RECURSIVE bitwiseAnd(_, _)
\* Image.bitwiseAnd on one pixel: the bitwise AND of two non-negative integers
bitwiseAnd(a, b) ==
    IF a = 0 \/ b = 0 THEN 0
    ELSE (a % 2) * (b % 2) + 2 * bitwiseAnd(a \div 2, b \div 2)

\* 1 << 10 and 1 << 11
cloud_bit_mask == 2 ^ 10
\* Mutant of cirrus_bit_mask: 1 << 12
cirrus_bit_shifted == 2 ^ 12
cirrus_bit_mask == 2 ^ 11

\* eq(0): 1 where the pixel equals 0, else 0
eq0(v) == IF v = 0 THEN 1 ELSE 0

\* And: 1 where both pixels are non-zero, else 0
And(a, b) == IF a # 0 /\ b # 0 THEN 1 ELSE 0

\* Lines 21-25: the mask mask_clouds computes from a pixel's QA60 value
CloudMask(q) ==
    And(eq0(bitwiseAnd(q, cloud_bit_mask)), eq0(bitwiseAnd(q, cirrus_bit_mask)))

\* Lines 20-28: mask_clouds on an image of one pixel: updateMask, then the bands
\* divided by 10000
mask_clouds(img) ==
    [img EXCEPT !.valid = (img.valid /\ CloudMask(img.qa) # 0),
                !.divisor = img.divisor * 10000]

\* QA60 values with every combination of the cloud and cirrus bits, the other
\* bits clear or some of them set
QASamples ==
    { cloud * 2 ^ 10 + cirrus * 2 ^ 11 + other :
        cloud \in {0, 1}, cirrus \in {0, 1}, other \in {0, 2 ^ 12 + 2 ^ 9} }

\* An image of the dataset: whether it lies in the date range and touches the
\* region, and one pixel of it (its QA60 value and a band value)
ImageSamples ==
    { [in_date |-> f[1], in_region |-> f[2], qa |-> q, band |-> f[3], valid |-> TRUE,
       divisor |-> 1] :
        f \in { << TRUE, TRUE, 800 >>, << TRUE, TRUE, 2400 >>,
                << FALSE, TRUE, 800 >>, << TRUE, FALSE, 2400 >> },
        q \in QASamples }

Catalogues == UNION { [1..k -> ImageSamples] : k \in 0..MaxImages }

TaskIds == { "TASKID-A", "TASKID-B" }

InitExport ==
    /\ catalogue \in Catalogues
    /\ epc = "start"
    /\ collection = << >>
    /\ image = NoImage
    /\ export_image = NoImage
    /\ task = NoTask
    /\ api_calls = << >>
    /\ console = << >>
    /\ AnalyzeIdle
    /\ MaskIdle

\* Line 9: ee.Initialize()
Initialize ==
    /\ epc = "start"
    /\ api_calls' = Append(api_calls, "Initialize")
    /\ epc' = "load"
    /\ UNCHANGED << catalogue, collection, image, export_image, task, console >>
    /\ UNCHANGED << avars, mvars >>

\* Lines 12-15: the region and ee.ImageCollection('COPERNICUS/S2_SR_HARMONIZED')
LoadCollection ==
    /\ epc = "load"
    /\ collection' = catalogue
    /\ api_calls' = Append(api_calls, "ImageCollection")
    /\ epc' = "filterDate"
    /\ UNCHANGED << catalogue, image, export_image, task, console >>
    /\ UNCHANGED << avars, mvars >>

InDate(img) == img.in_date
InRegion(img) == img.in_region

\* Line 16: .filterDate('2024-08-01', '2024-09-01')
FilterDate ==
    /\ epc = "filterDate"
    /\ collection' = SelectSeq(collection, InDate)
    /\ api_calls' = Append(api_calls, "filterDate")
    /\ epc' = "filterBounds"
    /\ UNCHANGED << catalogue, image, export_image, task, console >>
    /\ UNCHANGED << avars, mvars >>

\* Line 17: .filterBounds(region)
FilterBounds ==
    /\ epc = "filterBounds"
    /\ collection' = SelectSeq(collection, InRegion)
    /\ api_calls' = Append(api_calls, "filterBounds")
    /\ epc' = "map"
    /\ UNCHANGED << catalogue, image, export_image, task, console >>
    /\ UNCHANGED << avars, mvars >>

\* Mutant of MapMaskClouds: the mapped collection is not assigned
MapMaskCloudsDiscarded ==
    /\ epc = "map"
    /\ collection' = collection
    /\ api_calls' = Append(api_calls, "map(mask_clouds)")
    /\ epc' = "median"
    /\ UNCHANGED << catalogue, image, export_image, task, console >>
    /\ UNCHANGED << avars, mvars >>

\* Line 30: collection.map(mask_clouds)
MapMaskClouds ==
    /\ epc = "map"
    /\ collection' = [k \in 1..Len(collection) |-> mask_clouds(collection[k])]
    /\ api_calls' = Append(api_calls, "map(mask_clouds)")
    /\ epc' = "median"
    /\ UNCHANGED << catalogue, image, export_image, task, console >>
    /\ UNCHANGED << avars, mvars >>

IsValid(img) == img.valid

\* Line 33: collection.median().select([...]): the reducer takes the pixels the
\* masks leave valid
Median ==
    /\ epc = "median"
    /\ image' = [made |-> TRUE,
                 inputs |-> SelectSeq(collection, IsValid),
                 ops |-> << "median" >>]
    /\ api_calls' = api_calls \o << "median", "select" >>
    /\ epc' = "rescale"
    /\ UNCHANGED << catalogue, collection, export_image, task, console >>
    /\ UNCHANGED << avars, mvars >>

\* Line 36: image.multiply(10000).toInt16()
Rescale ==
    /\ epc = "rescale"
    /\ export_image' = [image EXCEPT !.ops = @ \o << "multiply(10000)", "toInt16" >>]
    /\ api_calls' = api_calls \o << "multiply", "toInt16" >>
    /\ epc' = "export"
    /\ UNCHANGED << catalogue, collection, image, task, console >>
    /\ UNCHANGED << avars, mvars >>

\* Lines 39-50: ee.batch.Export.image.toDrive(...)
BuildTask ==
    /\ epc = "export"
    /\ task' = [made |-> TRUE, state |-> "UNSUBMITTED", id |-> "", image |-> export_image]
    /\ api_calls' = Append(api_calls, "Export.image.toDrive")
    /\ epc' = "task.start"
    /\ UNCHANGED << catalogue, collection, image, export_image, console >>
    /\ UNCHANGED << avars, mvars >>

\* Line 53: task.start(); the service assigns the task its identifier
StartTask ==
    /\ epc = "task.start"
    /\ \E id \in TaskIds : task' = [task EXCEPT !.state = "READY", !.id = id]
    /\ api_calls' = Append(api_calls, "task.start")
    /\ epc' = "print"
    /\ UNCHANGED << catalogue, collection, image, export_image, console >>
    /\ UNCHANGED << avars, mvars >>

\* Mutant of PrintTask: the task's status is polled before the prints
PrintTaskPolled ==
    /\ epc = "print"
    /\ console' = console \o
           << "Export task started: " \o task.id,
              "Check https://code.earthengine.google.com/tasks for progress",
              "File will appear in your Google Drive in the EarthEngine_Exports folder" >>
    /\ api_calls' = Append(api_calls, "task.status")
    /\ epc' = "done"
    /\ UNCHANGED << catalogue, collection, image, export_image, task >>
    /\ UNCHANGED << avars, mvars >>

\* Lines 54-56: the three closing prints
PrintTask ==
    /\ epc = "print"
    /\ console' = console \o
           << "Export task started: " \o task.id,
              "Check https://code.earthengine.google.com/tasks for progress",
              "File will appear in your Google Drive in the EarthEngine_Exports folder" >>
    /\ epc' = "done"
    /\ UNCHANGED << catalogue, collection, image, export_image, task, api_calls >>
    /\ UNCHANGED << avars, mvars >>

NextExport ==
    \/ Initialize
    \/ LoadCollection
    \/ FilterDate
    \/ FilterBounds
    \/ MapMaskClouds
    \/ Median
    \/ Rescale
    \/ BuildTask
    \/ StartTask
    \/ PrintTask

ExportSpec == InitExport /\ [][NextExport]_vars

\* The interpreter runs the script's next statement whenever there is one
FairExportSpec == ExportSpec /\ WF_vars(NextExport)

-----------------------------------------------------------------------------
(* mask_clouds on every QA60 value *)

InitMask ==
    /\ qa \in 0..(2 ^ QABits - 1)
    /\ mask = NotComputed
    /\ AnalyzeIdle
    /\ ExportIdle

\* Lines 21-25 on the pixel
ApplyMask ==
    /\ mask = NotComputed
    /\ mask' = CloudMask(qa)
    /\ UNCHANGED << qa, avars, evars >>

NextMask == ApplyMask

MaskSpec == InitMask /\ [][NextMask]_vars

-----------------------------------------------------------------------------
(* Properties of analyze-user-cases.py *)

\* The categorisation loop has run to its end
CategorizeLoopDone ==
    \/ pc \in { "support", "summary", "capabilities", "generate", "save", "finish", "done" }
    \/ pc = "fault" /\ fault = "ZeroDivisionError"

CategoryIndex(name) == CHOOSE c \in 1..Len(categories) : categories[c].name = name

\* The lowercased text has a keyword of the c-th category as a substring
HitsCategory(text, c) ==
    \E kw \in SeqRange(categories[c].keywords) : In(kw, lowered[text])

\* The lowercased text has a geospatial keyword as a substring
MentionsGeo(text) == \E kw \in SeqRange(keywords) : In(kw, lowered[text])

\* The use_cases entry of the cell at row r, column c
EntryOf(r, c) ==
    [user |-> r, column |-> df.columns[c], use_case |-> df.rows[r][c].text]

\* The places of the category buckets that hold the entry of the cell at (r, c)
Places(r, c) ==
    { p \in UNION { {cat} \X (1..Len(categorized[cat])) : cat \in CategoryNames } :
        /\ categorized[p[1]][p[2]].user = r
        /\ categorized[p[1]][p[2]].column = df.columns[c] }

\* C1: every cell is in at most one place of the category buckets, and an entry
\* of a bucket is the entry of a text cell, in the bucket of the first category,
\* in declared order, that has a keyword in the lowercased text.
C1_FirstMatchingCategory ==
    /\ \A r \in 1..NRows, c \in 1..NCols : Cardinality(Places(r, c)) <= 1
    /\ \A cat \in CategoryNames : \A k \in 1..Len(categorized[cat]) :
          LET e == categorized[cat][k]
          IN  /\ e.user \in 1..NRows
              /\ \E c \in 1..NCols :
                    /\ df.rows[e.user][c].kind = "str"
                    /\ e = EntryOf(e.user, c)
              /\ HitsCategory(e.use_case, CategoryIndex(cat))
              /\ \A d \in 1..(CategoryIndex(cat) - 1) : ~HitsCategory(e.use_case, d)

\* A text with keywords of Agriculture and of Water Resources sits in Agriculture
C1_Witness ==
    /\ pc = "done"
    /\ \E k \in 1..Len(categorized["Agriculture"]) :
          /\ HitsCategory(categorized["Agriculture"][k].use_case, 3)
          /\ HitsCategory(categorized["Agriculture"][k].use_case, 2)

NoCategoryHit(text) == \A d \in 1..Len(categories) : ~HitsCategory(text, d)

InUncategorized(r, c) ==
    \E k \in 1..Len(uncategorized) : uncategorized[k] = EntryOf(r, c)

\* C2 as stated: after the categorisation loop every text cell with no category
\* keyword in its lowercased text is in the uncategorized bucket.
C2_EveryTextCell ==
    CategorizeLoopDone =>
        \A r \in 1..NRows, c \in 1..NCols :
            (df.rows[r][c].kind = "str" /\ NoCategoryHit(df.rows[r][c].text))
                => InUncategorized(r, c)

\* C2 amended: after the categorisation loop every text cell of more than 20
\* characters whose lowercased text has a geospatial keyword and no category
\* keyword is in the uncategorized bucket, once.
C2_ExtractedTextCell ==
    CategorizeLoopDone =>
        \A r \in 1..NRows, c \in 1..NCols :
            ( /\ df.rows[r][c].kind = "str"
              /\ Len(df.rows[r][c].text) > MinTextLen
              /\ MentionsGeo(df.rows[r][c].text)
              /\ NoCategoryHit(df.rows[r][c].text) )
                => Cardinality({ k \in 1..Len(uncategorized) :
                                   uncategorized[k] = EntryOf(r, c) }) = 1

\* An extracted text without category keyword is in the bucket while a short text
\* without category keyword is not
C2_Witness ==
    /\ pc = "done"
    /\ \E r \in 1..NRows, c \in 1..NCols :
          /\ df.rows[r][c].kind = "str"
          /\ Len(df.rows[r][c].text) > MinTextLen
          /\ NoCategoryHit(df.rows[r][c].text)
          /\ InUncategorized(r, c)
    /\ \E r \in 1..NRows, c \in 1..NCols :
          /\ df.rows[r][c].kind = "str"
          /\ NoCategoryHit(df.rows[r][c].text)
          /\ ~InUncategorized(r, c)

\* The lowercased text has the trigger keyword of the record's operation
Triggered(rec, text) ==
    CASE rec.name = "Vegetation Monitoring" ->
            In("ndvi", lowered[text]) \/ In("vegetation", lowered[text])
      [] rec.name = "Water Resources Monitoring" -> In("water", lowered[text])
      [] rec.name = "Wildfire Risk Assessment" ->
            In("wildfire", lowered[text]) \/ In("fire", lowered[text])
      [] OTHER -> FALSE

\* C3 as stated: the text carried by every record of user-test-cases.json has
\* the trigger keyword of the record's operation (whatever the case of its letters).
C3_CarriedTextTriggers ==
    json_file.written =>
        \A k \in 1..Len(json_file.content) :
            Triggered(json_file.content[k], json_file.content[k].use_case)

\* C3 amended: every record of user-test-cases.json carries the first 100
\* characters of a use case whose whole lowercased text has the trigger keyword
\* of the record's operation.
C3_SourceTextTriggers ==
    json_file.written =>
        \A k \in 1..Len(json_file.content) :
            \E u \in 1..Len(use_cases) :
                /\ json_file.content[k].use_case
                       = SubSeq(use_cases[u].use_case, 1,
                                Min(Len(use_cases[u].use_case), UseCaseChars))
                /\ Triggered(json_file.content[k], use_cases[u].use_case)

\* A wildfire record whose carried text was cut before the keyword
C3_Witness ==
    /\ json_file.written
    /\ \E k \in 1..Len(json_file.content) :
          /\ json_file.content[k].name = "Wildfire Risk Assessment"
          /\ ~Triggered(json_file.content[k], json_file.content[k].use_case)

\* C5: every run reaches the closing print with user-test-cases.json written.
C5_RunsToCompletion == <>(pc = "done" /\ json_file.written)

Templates ==
    { [name |-> "Vegetation Monitoring", operation |-> "earth_engine_process",
       args |-> [operation |-> "index", indexType |-> "NDVI", region |-> "Los Angeles",
                 startDate |-> "2024-01-01", endDate |-> "2024-01-31",
                 includeVisualization |-> TRUE]],
      [name |-> "Water Resources Monitoring", operation |-> "earth_engine_process",
       args |-> [operation |-> "index", indexType |-> "NDWI", region |-> "San Francisco",
                 startDate |-> "2024-01-01", endDate |-> "2024-01-31",
                 includeVisualization |-> TRUE]],
      [name |-> "Wildfire Risk Assessment", operation |-> "wildfire_risk_assessment",
       args |-> [region |-> "Los Angeles", startDate |-> "2024-06-01",
                 endDate |-> "2024-08-31"]] }

\* C7: every record of user-test-cases.json has the four fields name, operation,
\* args and use_case; name, operation and args are one of the three templates and
\* use_case is the prefix of at most 100 characters of a use case's text, the
\* whole text when that is no longer.
C7_RecordShape ==
    json_file.written =>
        \A k \in 1..Len(json_file.content) :
            LET rec == json_file.content[k]
            IN  /\ DOMAIN rec = { "name", "operation", "args", "use_case" }
                /\ [name |-> rec.name, operation |-> rec.operation, args |-> rec.args]
                       \in Templates
                /\ \E u \in 1..Len(use_cases) :
                      LET text == use_cases[u].use_case
                      IN  /\ Len(rec.use_case) <= UseCaseChars
                          /\ Len(text) <= UseCaseChars => rec.use_case = text
                          /\ Len(text) > UseCaseChars => Len(rec.use_case) = UseCaseChars
                          /\ rec.use_case = SubSeq(text, 1, Len(rec.use_case))

\* The file holds a record with a cut text and a record with a whole text
C7_Witness ==
    /\ json_file.written
    /\ \E k \in 1..Len(json_file.content) :
          /\ Len(json_file.content[k].use_case) = UseCaseChars
          /\ \E u \in 1..Len(use_cases) :
                /\ Len(use_cases[u].use_case) > UseCaseChars
                /\ json_file.content[k].use_case = SubSeq(use_cases[u].use_case, 1, UseCaseChars)
    /\ \E k \in 1..Len(json_file.content) :
          Len(json_file.content[k].use_case) < UseCaseChars

Counted == supported_count + partial_support + needs_extension

\* Number of capabilities with a keyword in the lowercased text
CapabilityHits(text) ==
    Cardinality({ c \in 1..Len(mcp_capabilities) :
                    \E kw \in SeqRange(mcp_capabilities[c].keywords) : In(kw, lowered[text]) })

C9_Sum ==
    /\ pc \in { "columns", "extract", "categorize" } => Counted = 0
    /\ pc = "support" => Counted = n
    /\ pc \in { "summary", "capabilities", "generate", "save", "finish", "done" }
          => Counted = Min(Len(use_cases), DetailLimit)
    /\ pc \in { "capabilities", "generate", "save", "finish", "done" }
          => /\ total_analyzed = Min(Len(use_cases), DetailLimit)
             /\ Counted = total_analyzed
    /\ (pc = "fault" /\ fault = "ZeroDivisionError")
          => /\ total_analyzed = Min(Len(use_cases), DetailLimit)
             /\ Counted = total_analyzed

C9_Iteration ==
    (pc = "support" /\ n' = n + 1) =>
        LET hits == CapabilityHits(use_cases[n + 1].use_case)
        IN  /\ n < DetailLimit
            /\ supported_count' = supported_count + (IF hits >= 2 THEN 1 ELSE 0)
            /\ partial_support' = partial_support + (IF hits = 1 THEN 1 ELSE 0)
            /\ needs_extension' = needs_extension + (IF hits = 0 THEN 1 ELSE 0)

\* C9: each iteration of the support-level loop over the first 10 use cases adds
\* one to exactly one counter (fully supported for 2 or more matching
\* capabilities, partially for 1, needs extension for 0), the three counters sum
\* to the number of use cases processed, and at the end to
\* total_analyzed = min(len(use_cases), 10).
C9_SupportCounters == [](C9_Sum) /\ [][C9_Iteration]_vars

\* More than 10 use cases, 10 counted, of more than one support level
C9_Witness ==
    /\ pc = "done"
    /\ Len(use_cases) > DetailLimit
    /\ total_analyzed = DetailLimit
    /\ Counted = DetailLimit
    /\ supported_count > 0
    /\ supported_count < DetailLimit

\* Number of cells the extraction loop has visited, in row-major order
Visited ==
    IF pc = "columns" \/ (pc = "fault" /\ fault = "AttributeError") THEN 0
    ELSE IF pc = "extract" THEN idx * NCols + (cpos - 1)
    ELSE NRows * NCols

RowOf(v) == ((v - 1) \div NCols) + 1
ColOf(v) == ((v - 1) % NCols) + 1

\* The v-th cell in row-major order is non-null, a string of more than 20
\* characters, and its lowercased text has a geospatial keyword
Qualifies(v) ==
    LET cell == df.rows[RowOf(v)][ColOf(v)]
    IN  /\ cell.kind # "nan"
        /\ cell.kind = "str"
        /\ Len(cell.text) > MinTextLen
        /\ MentionsGeo(cell.text)

\* C10: use_cases holds one entry for every visited cell, of any column, that is
\* non-null, a string of more than 20 characters with a geospatial keyword in
\* its lowercased text, and no other entry; the entries are in row-major order and
\* carry user = row index + 1, the column name and the cell text.
C10_Extraction ==
    LET qualifying == { v \in 1..Visited : Qualifies(v) }
    IN  /\ Len(use_cases) = Cardinality(qualifying)
        /\ \A v \in qualifying :
              LET j == Cardinality({ w \in qualifying : w <= v })
              IN  use_cases[j] = [user |-> (RowOf(v) - 1) + 1,
                                  column |-> df.columns[ColOf(v)],
                                  use_case |-> df.rows[RowOf(v)][ColOf(v)].text]

\* Two rows and two columns read: an entry of a column that is no key column, a
\* later entry of a key column in the row below, and a string cell left out
C10_Witness ==
    /\ pc = "done"
    /\ NRows >= 2 /\ NCols >= 2
    /\ \E j \in 1..Len(use_cases), k \in 1..Len(use_cases) :
          /\ j < k
          /\ use_cases[j].user < use_cases[k].user
          /\ ~IsKeyColumn(use_cases[j].column)
          /\ IsKeyColumn(use_cases[k].column)
    /\ \E r \in 1..NRows, c \in 1..NCols :
          /\ df.rows[r][c].kind = "str"
          /\ \A j \in 1..Len(use_cases) : use_cases[j] # EntryOf(r, c)

-----------------------------------------------------------------------------
(* Properties of export_to_drive_script.py *)

Bit(v, b) == (v \div (2 ^ b)) % 2

\* C4: the mask of a pixel is 0 when bit 10 or bit 11 of its QA60 value is set and
\* 1 when both are clear, whatever its other bits.
C4_CloudMask ==
    mask # NotComputed =>
        /\ (Bit(qa, 10) = 1 \/ Bit(qa, 11) = 1) => mask = 0
        /\ (Bit(qa, 10) = 0 /\ Bit(qa, 11) = 0) => mask = 1

\* A pixel with the cirrus bit and other bits set, the cloud bit clear, is excluded
C4_Witness ==
    /\ mask = 0
    /\ Bit(qa, 11) = 1
    /\ Bit(qa, 10) = 0
    /\ qa % (2 ^ 10) # 0
    /\ qa \div (2 ^ 12) # 0

Occurrences(q, x) == Cardinality({ k \in 1..Len(q) : q[k] = x })

C6_Safe ==
    /\ Occurrences(api_calls, "task.start") <= 1
    /\ \A k \in 1..Len(api_calls) : api_calls[k] = "task.start" => k = Len(api_calls)
    /\ epc = "done" => Occurrences(api_calls, "task.start") = 1
    /\ console # << >> =>
          /\ Occurrences(api_calls, "task.start") = 1
          /\ task.state = "READY"
          /\ task.id \in TaskIds
          /\ console[1] = "Export task started: " \o task.id

ApiOrder ==
    << "Initialize", "ImageCollection", "filterDate", "filterBounds",
       "map(mask_clouds)", "median", "select", "multiply", "toInt16",
       "Export.image.toDrive", "task.start" >>

C8_Safe ==
    /\ Len(api_calls) <= Len(ApiOrder)
    /\ api_calls = SubSeq(ApiOrder, 1, Len(api_calls))
    /\ epc = "done" => api_calls = ApiOrder
    /\ image.made =>
          /\ \A k \in 1..Len(image.inputs) :
                /\ image.inputs[k].in_date
                /\ image.inputs[k].in_region
                /\ Bit(image.inputs[k].qa, 10) = 0
                /\ Bit(image.inputs[k].qa, 11) = 0
                /\ image.inputs[k].divisor = 10000
          /\ Len(image.inputs) =
                Cardinality({ k \in 1..Len(catalogue) :
                                /\ catalogue[k].in_date
                                /\ catalogue[k].in_region
                                /\ Bit(catalogue[k].qa, 10) = 0
                                /\ Bit(catalogue[k].qa, 11) = 0 })

====
